---- MODULE Spec2Model ----
(***************************************************************************)
(* The interaction engine of the qwik-select dropdown (src/src/useSelect.ts)*)
(* as a state machine: the three stores (isOpen, filtered options, hover),  *)
(* the props snapshot, the DOM event handlers and the isOpen watcher.       *)
(*                                                                          *)
(* Calling conventions taken from the code:                                 *)
(*  - a $(...) closure is a lazily loaded QRL: a call runs its body at the   *)
(*    call when the symbol is loaded, and otherwise once the handler's own  *)
(*    statements have finished (no call is awaited), in call order and      *)
(*    before the next event.  This decides an outcome in handleInputChange  *)
(*    only, the one handler that reads a store after calling a closure that *)
(*    writes it; `filter` is an async function without an await, and an     *)
(*    exception in it becomes a rejected promise nobody awaits;             *)
(*  - the useWatch$ task updateHoveredOptionOnListToggle runs after the     *)
(*    handler that changed isOpenStore.value, and only when the value       *)
(*    actually changed;                                                     *)
(*  - useStore({...props}) copies the props of the first render; no later   *)
(*    render writes into that copy.                                         *)
(* Strings are sequences of characters, arrays are 0-indexed as in the code *)
(* (At, IndexOf), and an absent value is the value Undefined.               *)
(***************************************************************************)
EXTENDS Integers, Sequences, FiniteSets, TLC

VARIABLES
    isOpenStore,           \* isOpenStore.value
    filteredOptionsStore,  \* filteredOptionsStore.value
    hoveredOptionStore,    \* [hoveredOptionIndex, hoveredOption]
    propsStore,            \* useStore({...props}): options, value, onChange, optionLabelKey
    props,                 \* the props of the host's latest render (value)
    onChangeCalls,         \* arguments of the onChange$ calls made by the last event
    rejected,              \* the last event left a rejected (thrown) filter promise
    listeners,             \* number of listeners registered per <<element, event type>>
    mounted,               \* the useClientEffect$ has run and its cleanup has not
    scrolls,               \* selectors of the scrollToItem calls made by the last event
    loaded,                \* the filter symbol has been loaded by an earlier call
    lastEvent              \* the DOM event processed last: [type, query, wasOpen, hovered]

vars == <<isOpenStore, filteredOptionsStore, hoveredOptionStore, propsStore,
          props, onChangeCalls, rejected, listeners, mounted, scrolls,
          loaded, lastEvent>>

-----------------------------------------------------------------------------
(* Bounds *)

\* longest option list a host supplies
MaxOpts == 2

-----------------------------------------------------------------------------
(* Strings *)

Chars == {"a", "A", "b"}

\* a field that an object does not have (reading it yields undefined)
Absent == <<"undefined">>

\* the texts typed into the input: empty, either case, one and two characters
Queries ==
    { <<>>, <<"a">>, <<"A">>, <<"b">>, <<"a", "b">>, <<"B", "a">> }

LowerChar(c) == IF c = "A" THEN "a" ELSE c

\* String.prototype.toLowerCase
ToLowerCase(s) == [i \in 1..Len(s) |-> LowerChar(s[i])]

\* does t occur in s starting at 0-based position p
RECURSIVE MatchAt(_, _, _, _)
MatchAt(s, t, p, k) ==
    IF k = Len(t) THEN TRUE
    ELSE IF s[p + k + 1] # t[k + 1] THEN FALSE
    ELSE MatchAt(s, t, p, k + 1)

\* String.prototype.includes: scan the start positions left to right
RECURSIVE IncludesFrom(_, _, _)
IncludesFrom(s, t, p) ==
    IF p + Len(t) > Len(s) THEN FALSE
    ELSE IF MatchAt(s, t, p, 0) THEN TRUE
    ELSE IncludesFrom(s, t, p + 1)

StringIncludes(s, t) == IncludesFrom(s, t, 0)

-----------------------------------------------------------------------------
(* Options *)

StrOpt(s) == [kind |-> "string", id |-> 0, str |-> s, label |-> Absent, name |-> Absent]

ObjOpt(i, l, n) == [kind |-> "object", id |-> i, str |-> <<>>, label |-> l, name |-> n]

Undefined == [kind |-> "undefined", id |-> 0, str |-> <<>>, label |-> Absent, name |-> Absent]

\* the options a host may supply: SelectOption = string | record
Catalogue ==
    { StrOpt(<<>>),
      StrOpt(<<"A", "b">>),
      ObjOpt(1, <<"a">>, Absent),
      ObjOpt(2, <<"B", "a">>, <<"b">>) }

LabelKeys == {"label", "name"}

OptionLists == UNION {[1..n -> Catalogue] : n \in 0..MaxOpts}

Range(s) == {s[i] : i \in 1..Len(s)}

\* JavaScript truthiness of a SelectOption | undefined
Truthy(v) == v.kind = "object" \/ (v.kind = "string" /\ v.str # <<>>)

\* arr[i], undefined outside the array
At(arr, i) == IF i >= 0 /\ i < Len(arr) THEN arr[i + 1] ELSE Undefined

\* Array.prototype.indexOf: first position, -1 when absent
RECURSIVE IndexFrom(_, _, _)
IndexFrom(arr, x, i) ==
    IF i >= Len(arr) THEN -1
    ELSE IF arr[i + 1] = x THEN i
    ELSE IndexFrom(arr, x, i + 1)

IndexOf(arr, x) == IndexFrom(arr, x, 0)

\* Array.prototype.includes
ArrayIncludes(arr, x) == x \in Range(arr)

-----------------------------------------------------------------------------
(* useFilteredOptionsStore *)

\* typeof opt === "string" ? opt : opt[optionLabelKey]
Label(opt, optionLabelKey) ==
    IF opt.kind = "string" THEN opt.str
    ELSE IF optionLabelKey = "label" THEN opt.label
    ELSE opt.name

\* the predicate of options.filter; undefined.toLowerCase() throws
PredThrows(opt, query, optionLabelKey) == Label(opt, optionLabelKey) = Absent

\* variant: the query is compared as typed, without toLowerCase()
PredKeepsQueryCase(opt, query, optionLabelKey) ==
    StringIncludes(ToLowerCase(Label(opt, optionLabelKey)), query)

Pred(opt, query, optionLabelKey) ==
    StringIncludes(ToLowerCase(Label(opt, optionLabelKey)), ToLowerCase(query))

\* Array.prototype.filter: visit the elements in order, keep those accepted
RECURSIVE ArrayFilter(_, _, _, _)
ArrayFilter(options, query, optionLabelKey, i) ==
    IF i >= Len(options) THEN <<>>
    ELSE (IF Pred(options[i + 1], query, optionLabelKey)
          THEN <<options[i + 1]>> ELSE <<>>)
         \o ArrayFilter(options, query, optionLabelKey, i + 1)

\* does the body of filter(query) throw
filterThrows(options, query, optionLabelKey) ==
    /\ query # <<>>
    /\ \E i \in 1..Len(options) : PredThrows(options[i], query, optionLabelKey)

\* filter(query): the new state.value; state.value is kept when the body throws
filter(current, options, query, optionLabelKey) ==
    IF query = <<>> THEN options
    ELSE IF filterThrows(options, query, optionLabelKey) THEN current
    ELSE ArrayFilter(options, query, optionLabelKey, 0)

-----------------------------------------------------------------------------
(* useHoveredOptionStore *)

clearHoveredOption ==
    [hoveredOptionIndex |-> -1, hoveredOption |-> Undefined]

hoverOption(filtered, opt) ==
    [hoveredOptionIndex |-> IndexOf(filtered, opt), hoveredOption |-> opt]

hoverFirstOption(filtered) ==
    [hoveredOptionIndex |-> 0, hoveredOption |-> At(filtered, 0)]

\* variant: no wrap-around, the hover stays on the last option
hoverNextWithoutWrap(state, filtered) ==
    IF state.hoveredOptionIndex >= 0
    THEN LET next == state.hoveredOptionIndex + 1
             index == IF next > Len(filtered) - 1 THEN Len(filtered) - 1 ELSE next
         IN [hoveredOptionIndex |-> index, hoveredOption |-> At(filtered, index)]
    ELSE state

hoverNextOption(state, filtered) ==
    IF state.hoveredOptionIndex >= 0
    THEN LET next == state.hoveredOptionIndex + 1
             index == IF next > Len(filtered) - 1 THEN 0 ELSE next
         IN [hoveredOptionIndex |-> index, hoveredOption |-> At(filtered, index)]
    ELSE state

\* variant: the guard on hoveredOptionIndex is missing
hoverPrevUnguarded(state, filtered) ==
    LET prev == state.hoveredOptionIndex - 1
        index == IF prev < 0 THEN Len(filtered) - 1 ELSE prev
    IN [hoveredOptionIndex |-> index, hoveredOption |-> At(filtered, index)]

hoverPrevOption(state, filtered) ==
    IF state.hoveredOptionIndex >= 0
    THEN LET prev == state.hoveredOptionIndex - 1
             index == IF prev < 0 THEN Len(filtered) - 1 ELSE prev
         IN [hoveredOptionIndex |-> index, hoveredOption |-> At(filtered, index)]
    ELSE state

-----------------------------------------------------------------------------
(* useSelect *)

\* variant: the watcher without its else branch, the hover survives a close
toggleWithoutClear(isOpen, filtered) ==
    IF isOpen
    THEN IF Truthy(propsStore.value)
         THEN hoverOption(filtered, propsStore.value)
         ELSE hoverFirstOption(filtered)
    ELSE hoveredOptionStore

\* the useWatch$ task tracking isOpenStore.value
updateHoveredOptionOnListToggle(isOpen, filtered) ==
    IF isOpen
    THEN IF Truthy(propsStore.value)
         THEN hoverOption(filtered, propsStore.value)
         ELSE hoverFirstOption(filtered)
    ELSE clearHoveredOption

\* the rendering layer draws the list while the menu is open: listRef.current
\* becomes a new element when the menu opens
listCreated(wasOpen, isOpen) == ~wasOpen /\ isOpen

\* the useWatch$ task tracking listRef.current
scrollToSelectedOption(created) ==
    IF created /\ Truthy(propsStore.value) THEN {".item.selected"} ELSE {}

\* the useWatch$ task tracking hoveredOptionStore.hoveredOption: it runs when
\* the field was assigned another value
scrollToHoveredOption(assigned, hoveredOption) ==
    IF assigned /\ Truthy(hoveredOption) THEN {".item.hover"} ELSE {}

\* the stores after a handler has left them as (isOpen, filtered, hover):
\* the watcher runs when isOpenStore.value was changed
Settle(isOpen, filtered, hover) ==
    /\ isOpenStore' = isOpen
    /\ filteredOptionsStore' = filtered
    /\ hoveredOptionStore' =
          IF isOpen # isOpenStore
          THEN updateHoveredOptionOnListToggle(isOpen, filtered)
          ELSE hover
    /\ scrolls' =
          scrollToHoveredOption(
              \/ hover.hoveredOption # hoveredOptionStore.hoveredOption
              \/ hoveredOptionStore'.hoveredOption # hover.hoveredOption,
              hoveredOptionStore'.hoveredOption)
          \cup scrollToSelectedOption(listCreated(isOpenStore, isOpen))

\* filteredRead: the filtered options the handler's own statements read
Event(type, query) ==
    [type |-> type, query |-> query, wasOpen |-> isOpenStore,
     hovered |-> hoveredOptionStore.hoveredOption,
     filteredRead |-> filteredOptionsStore]

Quiet == /\ onChangeCalls' = <<>>
         /\ rejected' = FALSE
         /\ UNCHANGED <<propsStore, props, loaded>>

\* the hover update at the end of handleInputChange: the conditions read the
\* list `read`, the hover closure called runs against the list `current`
rehover(read, current, hover) ==
    IF Truthy(propsStore.value) /\ ArrayIncludes(read, propsStore.value)
    THEN hoverOption(current, propsStore.value)
    ELSE IF Len(read) > 0
    THEN hoverFirstOption(current)
    ELSE hover

\* the <<element, event type>> pairs the widget listens to
Subscriptions ==
    { <<"container", "click">>, <<"container", "pointerdown">>,
      <<"input", "keydown">>, <<"input", "input">>, <<"input", "focusout">> }

\* the body of the useClientEffect$: one addEventListener per pair
addListeners(registered) ==
    [s \in Subscriptions |-> registered[s] + 1]

\* variant: the cleanup leaves the focusout listener in place
removeAllButFocusout(registered) ==
    [s \in Subscriptions |->
        IF registered[s] > 0 /\ s # <<"input", "focusout">>
        THEN registered[s] - 1 ELSE registered[s]]

\* the cleanup the useClientEffect$ returns: one removeEventListener per pair
removeListeners(registered) ==
    [s \in Subscriptions |-> IF registered[s] > 0 THEN registered[s] - 1 ELSE 0]

\* a listener for the event is registered; handlers leave the registrations alone
Listening(element, type) ==
    /\ listeners[<<element, type>>] > 0
    /\ UNCHANGED <<listeners, mounted>>

\* the state useSelect(props) builds
Constructed(options, value, hasOnChange, key) ==
    /\ propsStore = [options |-> options, value |-> value,
                     onChange |-> hasOnChange, optionLabelKey |-> key]
    /\ filteredOptionsStore = options
    /\ isOpenStore = FALSE
    /\ hoveredOptionStore = [hoveredOptionIndex |-> -1, hoveredOption |-> Undefined]

Init ==
    /\ \E options \in OptionLists, key \in LabelKeys, hasOnChange \in BOOLEAN :
         \E value \in Range(options) \cup {Undefined} :
            /\ Constructed(options, value, hasOnChange, key)
            /\ props = [value |-> value]
    /\ onChangeCalls = <<>>
    /\ rejected = FALSE
    /\ listeners = [s \in Subscriptions |-> 0]
    /\ mounted = FALSE
    /\ scrolls = {}
    /\ loaded = FALSE
    /\ \E options \in OptionLists :
          lastEvent = [type |-> "render", query |-> <<>>, wasOpen |-> FALSE,
                       hovered |-> Undefined, filteredRead |-> options]
    /\ lastEvent.filteredRead = filteredOptionsStore

\* the component becomes visible: the useClientEffect$ registers the listeners.
\* After an unmount this is a new instance: useSelect runs again on the
\* host's current props.
Mount ==
    /\ ~mounted
    /\ mounted' = TRUE
    /\ listeners' = addListeners(listeners)
    /\ propsStore' = [propsStore EXCEPT !.value = props.value]
    /\ filteredOptionsStore' = propsStore.options
    /\ isOpenStore' = FALSE
    /\ hoveredOptionStore' = [hoveredOptionIndex |-> -1, hoveredOption |-> Undefined]
    /\ lastEvent' = [type |-> IF lastEvent.type = "unmount" THEN "remount" ELSE "mount",
                     query |-> <<>>, wasOpen |-> FALSE, hovered |-> Undefined,
                     filteredRead |-> propsStore.options]
    /\ onChangeCalls' = <<>>
    /\ rejected' = FALSE
    /\ scrolls' = {}
    /\ loaded' = FALSE
    /\ UNCHANGED props

\* the component is removed: the cleanup of the useClientEffect$ runs
Unmount ==
    /\ mounted
    /\ mounted' = FALSE
    /\ listeners' = removeListeners(listeners)
    /\ lastEvent' = Event("unmount", <<>>)
    /\ onChangeCalls' = <<>>
    /\ rejected' = FALSE
    /\ scrolls' = {}
    /\ UNCHANGED loaded
    /\ UNCHANGED <<isOpenStore, filteredOptionsStore, hoveredOptionStore,
                   propsStore, props>>

\* container "click": focus the input, toggleMenu()
handleContainerClick ==
    /\ Listening("container", "click")
    /\ Settle(~isOpenStore, filteredOptionsStore, hoveredOptionStore)
    /\ lastEvent' = Event("click", <<>>)
    /\ Quiet

\* container "pointerdown": at most preventDefault()
handleContainerPointerDown ==
    /\ Listening("container", "pointerdown")
    /\ Settle(isOpenStore, filteredOptionsStore, hoveredOptionStore)
    /\ lastEvent' = Event("pointerdown", <<>>)
    /\ Quiet

KeyArrowDown ==
    /\ Listening("input", "keydown")
    /\ IF isOpenStore
       THEN Settle(isOpenStore, filteredOptionsStore,
                   hoverNextOption(hoveredOptionStore, filteredOptionsStore))
       ELSE Settle(TRUE, filteredOptionsStore, hoveredOptionStore)
    /\ lastEvent' = Event("ArrowDown", <<>>)
    /\ Quiet

KeyArrowUp ==
    /\ Listening("input", "keydown")
    /\ Settle(isOpenStore, filteredOptionsStore,
              hoverPrevOption(hoveredOptionStore, filteredOptionsStore))
    /\ lastEvent' = Event("ArrowUp", <<>>)
    /\ Quiet

\* the host's onChange$ callback: it stores the selection and renders the
\* widget again with it as the value prop (controlled component)
HostOnChange(it) == props' = [value |-> it]

\* variant: the commit also writes the selection into the props snapshot
KeyCommitStoresValue(key) ==
    /\ Truthy(hoveredOptionStore.hoveredOption)
    /\ Settle(FALSE, filteredOptionsStore, hoveredOptionStore)
    /\ propsStore' = [propsStore EXCEPT !.value = hoveredOptionStore.hoveredOption]
    /\ onChangeCalls' = IF propsStore.onChange
                        THEN <<hoveredOptionStore.hoveredOption>> ELSE <<>>
    /\ lastEvent' = Event(key, <<>>)
    /\ rejected' = FALSE
    /\ UNCHANGED <<props, loaded>>

\* "Enter" and "Tab": closeMenu(), then onChange$(hoveredOption) when supplied
KeyCommit(key) ==
    /\ IF Truthy(hoveredOptionStore.hoveredOption)
       THEN /\ Settle(FALSE, filteredOptionsStore, hoveredOptionStore)
            /\ IF propsStore.onChange
               THEN /\ onChangeCalls' = <<hoveredOptionStore.hoveredOption>>
                    /\ HostOnChange(hoveredOptionStore.hoveredOption)
               ELSE /\ onChangeCalls' = <<>>
                    /\ UNCHANGED props
       ELSE /\ Settle(isOpenStore, filteredOptionsStore, hoveredOptionStore)
            /\ onChangeCalls' = <<>>
            /\ UNCHANGED props
    /\ lastEvent' = Event(key, <<>>)
    /\ rejected' = FALSE
    /\ UNCHANGED <<propsStore, loaded>>

KeyEnter == Listening("input", "keydown") /\ KeyCommit("Enter")

KeyTab == Listening("input", "keydown") /\ KeyCommit("Tab")

KeyEscape ==
    /\ Listening("input", "keydown")
    /\ Settle(FALSE, filteredOptionsStore, hoveredOptionStore)
    /\ lastEvent' = Event("Escape", <<>>)
    /\ Quiet

\* input "input": openMenu() when closed, filter(value), re-hover.
\* lazyFilter: the filter symbol is still loading, its body runs after the
\* handler's statements; lazyHover: so does the hover closure called.
handleInputChange ==
    /\ Listening("input", "input")
    /\ \E query \in Queries, lazyFilter \in {FALSE, ~loaded} :
        \E lazyHover \in {FALSE, lazyFilter} :
          LET filtered == filter(filteredOptionsStore, propsStore.options, query,
                                 propsStore.optionLabelKey)
              read == IF lazyFilter THEN filteredOptionsStore ELSE filtered
              current == IF lazyHover THEN filtered ELSE read
          IN /\ Settle(TRUE, filtered, rehover(read, current, hoveredOptionStore))
             /\ rejected' = filterThrows(propsStore.options, query,
                                         propsStore.optionLabelKey)
             /\ lastEvent' = [Event("input", query) EXCEPT !.filteredRead = read]
             /\ loaded' = TRUE
             /\ onChangeCalls' = <<>>
             /\ UNCHANGED <<propsStore, props>>

\* input "focusout": closeMenu()
handleFocusOut ==
    /\ Listening("input", "focusout")
    /\ Settle(FALSE, filteredOptionsStore, hoveredOptionStore)
    /\ lastEvent' = Event("focusout", <<>>)
    /\ Quiet

Next ==
    \/ Mount
    \/ Unmount
    \/ handleContainerClick
    \/ handleContainerPointerDown
    \/ KeyArrowDown
    \/ KeyArrowUp
    \/ KeyEnter
    \/ KeyTab
    \/ KeyEscape
    \/ handleInputChange
    \/ handleFocusOut

Spec == Init /\ [][Next]_vars

-----------------------------------------------------------------------------
(* Vocabulary of the properties *)

Idx == hoveredOptionStore.hoveredOptionIndex

Hovered == hoveredOptionStore.hoveredOption

NoHover == [hoveredOptionIndex |-> -1, hoveredOption |-> Undefined]

\* every option yields a label under optionLabelKey
LabelsPresent ==
    \A i \in 1..Len(propsStore.options) :
        Label(propsStore.options[i], propsStore.optionLabelKey) # Absent

\* t is a contiguous part of s
IsSubstring(t, s) ==
    \E p \in 0..Len(s) :
        /\ p + Len(t) <= Len(s)
        /\ \A k \in 1..Len(t) : s[p + k] = t[k]

\* the positions of the options whose folded label contains the folded query
Matching(query) ==
    {i \in 1..Len(propsStore.options) :
        IsSubstring(ToLowerCase(query),
                    ToLowerCase(Label(propsStore.options[i], propsStore.optionLabelKey)))}

\* seq lists exactly the options at the positions pos, in the order of positions
ListsInOrder(seq, pos) ==
    /\ Len(seq) = Cardinality(pos)
    /\ \E f \in [1..Len(seq) -> pos] :
          /\ \A j, k \in 1..Len(seq) : j < k => f[j] < f[k]
          /\ \A k \in 1..Len(seq) : seq[k] = propsStore.options[f[k]]

\* the committed value as the engine tests it: if (propsStore.value)
CommittedValue == IF Truthy(propsStore.value) THEN propsStore.value ELSE Undefined

\* the option to hover against a filtered list: the committed value if it is
\* listed, else the first option listed, else none
PrescribedOption(filtered) ==
    IF CommittedValue # Undefined /\ CommittedValue \in Range(filtered)
    THEN CommittedValue
    ELSE IF Len(filtered) > 0 THEN filtered[1]
    ELSE Undefined

\* the hover is the prescribed one; when no option is to be hovered only the
\* absence of hoveredOption is asked for
HoverAsPrescribed ==
    LET opt == PrescribedOption(filteredOptionsStore)
    IN /\ Hovered = opt
       /\ opt # Undefined => Idx = IndexOf(filteredOptionsStore, opt)

Opened == ~lastEvent.wasOpen /\ isOpenStore

Closed == lastEvent.wasOpen /\ ~isOpenStore

CommitKeys == {"Enter", "Tab"}

-----------------------------------------------------------------------------
(* Properties *)

\* C1: in every reachable state hoveredOptionIndex is -1 with no hovered
\* option, or a valid index into the filtered options with hoveredOption
\* equal to the option at that index.
C1_HoverInvariant ==
    \/ hoveredOptionStore = NoHover
    \/ /\ Idx >= 0
       /\ Idx <= Len(filteredOptionsStore) - 1
       /\ Hovered = filteredOptionsStore[Idx + 1]

C3_OpenHover ==
    Opened => HoverAsPrescribed

\* C4: whenever the menu goes from open to closed the hover is cleared.
C4_CloseClearsHover ==
    Closed => hoveredOptionStore = NoHover

\* Escape closed a menu in which an option was hovered
C4_Witness ==
    /\ Closed
    /\ lastEvent.type = "Escape"
    /\ lastEvent.hovered # Undefined
    /\ hoveredOptionStore = NoHover

\* C5: an Enter or Tab with nothing hovered changes none of isOpen, the
\* filtered options, the hover and the committed value and calls nothing;
\* with an option h hovered it closes the menu and calls onChange once with h
\* (for a host that supplied onChange).
C5_CommitKey ==
    [][(lastEvent'.type \in CommitKeys /\ propsStore.onChange) =>
          IF Hovered = Undefined
          THEN /\ UNCHANGED <<isOpenStore, filteredOptionsStore,
                              hoveredOptionStore, propsStore, props>>
               /\ onChangeCalls' = <<>>
          ELSE /\ ~isOpenStore'
               /\ onChangeCalls' = <<Hovered>>]_vars

\* C6: an event calls onChange once if it is an Enter or Tab received while
\* an option was hovered, and not at all otherwise, so the calls made equal
\* the commit keys received while hovering (for a host that supplied onChange).
C6_OnChangePerCommit ==
    propsStore.onChange =>
        Len(onChangeCalls) =
            IF lastEvent.type \in CommitKeys /\ lastEvent.hovered # Undefined
            THEN 1 ELSE 0

\* C7: in every reachable state with hoveredOptionIndex >= 0, hoverNext
\* followed by hoverPrev restores the hover, and so does hoverPrev followed
\* by hoverNext, the filtered options being the same.
C7_NextPrevInverse ==
    Idx >= 0 =>
        /\ hoverPrevOption(hoverNextOption(hoveredOptionStore, filteredOptionsStore),
                           filteredOptionsStore) = hoveredOptionStore
        /\ hoverNextOption(hoverPrevOption(hoveredOptionStore, filteredOptionsStore),
                           filteredOptionsStore) = hoveredOptionStore

\* C8: after a text input with query q the menu is open, the filtered options
\* are filter(q), and the hover is the one prescribed against them: the
\* committed value if among them, else the first of them, else none.
\* Stated for option lists whose options all have a label.
C8_InputRehover ==
    (lastEvent.type = "input" /\ LabelsPresent) =>
        /\ isOpenStore
        /\ ListsInOrder(filteredOptionsStore, Matching(lastEvent.query))
        /\ HoverAsPrescribed

\* C9: no step of an engine instance (a step that is neither its mount nor
\* its unmount) changes the committed value the engine reads, and the value
\* the host holds changes only in a step that calls onChange with it.
C9_Controlled ==
    [][/\ mounted' = mounted => propsStore'.value = propsStore.value
       /\ props'.value # props.value => onChangeCalls' = <<props'.value>>]_vars

\* a commit proposed another option than the committed value the engine reads
C9_Witness ==
    /\ lastEvent.type \in CommitKeys
    /\ onChangeCalls # <<>>
    /\ onChangeCalls[1] # propsStore.value
    /\ props.value = onChangeCalls[1]

\* C10: once a commit has delivered X and the host has passed X back as the
\* value, an opening of the menu with all the options listed hovers X.
C10_OpenHoversHostValue ==
    (/\ Opened
     /\ props.value # propsStore.value
     /\ filteredOptionsStore = propsStore.options) =>
        Hovered = props.value

\* the stores and props an event may touch
stores == <<isOpenStore, filteredOptionsStore, hoveredOptionStore, propsStore, props>>

\* C11: with n >= 1 filtered options and the hover on a valid index i,
\* hoverNext moves to i+1, or to 0 from the last index, hoverPrev moves to
\* i-1, or to n-1 from 0, and hoveredOption is the option at the new index;
\* an ArrowDown over a single hovered option leaves it hovered.
C11_CyclicNavigation ==
    LET n == Len(filteredOptionsStore)
        nxt == hoverNextOption(hoveredOptionStore, filteredOptionsStore)
        prv == hoverPrevOption(hoveredOptionStore, filteredOptionsStore)
    IN /\ (n >= 1 /\ Idx >= 0 /\ Idx <= n - 1) =>
            /\ nxt.hoveredOptionIndex = (Idx + 1) % n
            /\ nxt.hoveredOption = filteredOptionsStore[nxt.hoveredOptionIndex + 1]
            /\ prv.hoveredOptionIndex = (Idx + n - 1) % n
            /\ prv.hoveredOption = filteredOptionsStore[prv.hoveredOptionIndex + 1]
       /\ (/\ lastEvent.type = "ArrowDown"
           /\ lastEvent.wasOpen
           /\ n = 1
           /\ lastEvent.hovered = filteredOptionsStore[1]) =>
            hoveredOptionStore =
                [hoveredOptionIndex |-> 0, hoveredOption |-> filteredOptionsStore[1]]

\* an ArrowDown wrapped the hover from the last of two options to the first
C11_Witness ==
    /\ lastEvent.type = "ArrowDown"
    /\ lastEvent.wasOpen
    /\ Len(filteredOptionsStore) = 2
    /\ filteredOptionsStore[1] # filteredOptionsStore[2]
    /\ lastEvent.hovered = filteredOptionsStore[2]
    /\ Idx = 0

\* C12: isOpen is false initially and follows the event table: a click
\* toggles it, ArrowDown and text input leave it open, Escape and focusout
\* leave it closed, Enter and Tab close it exactly when an option is hovered,
\* ArrowUp and pointer-down leave it as it was.
C12_OpenStateTable ==
    LET t == lastEvent.type
        was == lastEvent.wasOpen
    IN CASE t = "click" -> isOpenStore = ~was
         [] t \in {"ArrowDown", "input"} -> isOpenStore
         [] t \in {"Escape", "focusout"} -> ~isOpenStore
         [] t \in CommitKeys ->
               isOpenStore = IF lastEvent.hovered # Undefined THEN FALSE ELSE was
         [] t \in {"ArrowUp", "pointerdown", "unmount"} -> isOpenStore = was
         [] OTHER -> ~isOpenStore

\* C13: with hoveredOptionIndex = -1 hoverNext and hoverPrev change nothing,
\* so an arrow key that only calls them (ArrowUp, or ArrowDown while open)
\* leaves isOpen, the filtered options, the hover and the props as they
\* were; in particular ArrowUp while the menu is closed.
C13_NoHoverNoOp ==
    /\ [](Idx = -1 =>
            /\ hoverNextOption(hoveredOptionStore, filteredOptionsStore)
                 = hoveredOptionStore
            /\ hoverPrevOption(hoveredOptionStore, filteredOptionsStore)
                 = hoveredOptionStore)
    /\ [][(/\ Idx = -1
           /\ \/ lastEvent'.type = "ArrowUp"
              \/ lastEvent'.type = "ArrowDown" /\ isOpenStore) =>
             UNCHANGED stores]_vars

\* an ArrowUp arrived while the menu was closed over a non-empty list
C13_Witness ==
    /\ lastEvent.type = "ArrowUp"
    /\ ~lastEvent.wasOpen
    /\ ~isOpenStore
    /\ Idx = -1
    /\ Len(filteredOptionsStore) >= 1

\* C14: when the menu opens without a committed value over an empty filtered
\* list (hoverFirst on an empty list), hoveredOptionIndex is -1 and no option
\* is hovered.
C14_HoverFirstOnEmpty ==
    (Opened /\ ~Truthy(propsStore.value) /\ Len(filteredOptionsStore) = 0) =>
        hoveredOptionStore = NoHover

\* the label used for matching when the field may be missing: the empty string
LenientLabel(opt) ==
    IF Label(opt, propsStore.optionLabelKey) = Absent THEN <<>>
    ELSE Label(opt, propsStore.optionLabelKey)

MatchingLenient(query) ==
    {i \in 1..Len(propsStore.options) :
        IsSubstring(ToLowerCase(query), ToLowerCase(LenientLabel(propsStore.options[i])))}

\* C15: a text input never raises, also when an option lacks the label field:
\* its label counts as the empty string, so it is listed for the empty query
\* only, and the other options are filtered as usual.
C15_MissingLabel ==
    lastEvent.type = "input" =>
        /\ ~rejected
        /\ ListsInOrder(filteredOptionsStore, MatchingLenient(lastEvent.query))

\* C19: the argument of every onChange call is one of the filtered options
\* listed at that moment.
C19_CommitWithinFiltered ==
    onChangeCalls # <<>> => onChangeCalls[1] \in Range(filteredOptionsStore)

\* C20: onChange is called only by an event that found the menu open, and an
\* Enter or Tab received while the menu is closed calls nothing and changes
\* none of the stores.
C20_NoCommitWhileClosed ==
    /\ [](onChangeCalls # <<>> => lastEvent.wasOpen)
    /\ [][(lastEvent'.type \in CommitKeys /\ ~isOpenStore) =>
             (onChangeCalls' = <<>> /\ UNCHANGED stores)]_vars

\* an Enter arrived while the menu was closed, after an earlier commit
C20_Witness ==
    /\ lastEvent.type = "Enter"
    /\ ~lastEvent.wasOpen
    /\ ~isOpenStore
    /\ props.value # propsStore.value
    /\ onChangeCalls = <<>>

\* C17: while the component is mounted each of the five <<element, event>>
\* pairs has exactly one listener, before the mount and after an unmount none
\* has any, and over any mounts, unmounts and remounts no pair has two.
C17_ListenerLifecycle ==
    LET subscribed == {s \in DOMAIN listeners : listeners[s] > 0}
    IN /\ mounted =>
            subscribed = { <<"container", "click">>, <<"container", "pointerdown">>,
                           <<"input", "keydown">>, <<"input", "input">>,
                           <<"input", "focusout">> }
       /\ ~mounted => subscribed = {}
       /\ \A s \in DOMAIN listeners : listeners[s] <= 1

\* the component was mounted again after an unmount
C17_Witness ==
    /\ lastEvent.type = "remount"
    /\ mounted
    /\ \A s \in Subscriptions : listeners[s] = 1

\* C18: an event issues a scroll to the hovered item exactly when it changed
\* hoveredOption to an option (not when it cleared it or left it), and a
\* scroll to the selected item exactly when it opened the menu, so that the
\* list was created, while a committed value exists; each is issued
\* whether or not the other is.
C18_ScrollTriggers ==
    /\ ".item.hover" \in scrolls <=>
          (Hovered # lastEvent.hovered /\ Hovered # Undefined)
    /\ ".item.selected" \in scrolls <=>
          (Opened /\ propsStore.value # Undefined)

\* C16: the filtered options a text-input handler reads for its hover
\* decision are the ones in force once the event is processed: no action of
\* the same event was still pending to overwrite them.
C16_NoStaleRead ==
    lastEvent.type = "input" => lastEvent.filteredRead = filteredOptionsStore

====
